---------------------------- MODULE Spec2Model ----------------------------
(***************************************************************************)
(* A model of patriots-bot (src/bot.py): the run pipeline run_bot with its *)
(* seen-set store, and the pure helpers item_hash / normalize_url,         *)
(* looks_like_patriots, clean_title / build_tweet and extract_image_url.   *)
(*                                                                         *)
(* Text is modelled by TLA+ strings; a character is a string of length 1.  *)
(* Two characters of the source are not ASCII and are written here with    *)
(* ASCII stand-ins of the same length: "~" is the em dash U+2014 and "^"   *)
(* is the en dash U+2013.  No modelled input contains "~" or "^" with any  *)
(* other meaning.                                                          *)
(***************************************************************************)
EXTENDS Integers, Sequences, FiniteSets, TLC

VARIABLES
    feeds,        \* environment: what feedparser.parse returns for each feed URL
    fileExists,   \* whether SEEN_FILE exists on disk
    fileLines,    \* the lines of SEEN_FILE, in file order
    run,          \* number of runs of run_bot started so far
    pc,           \* position of run_bot: "idle", "feed", "item", "save", "done", "killed"
    fi,           \* index into FEEDS of the outer loop
    ei,           \* index into parsed.entries[:12] of the inner loop
    seen,         \* local variable seen of run_bot
    posted,       \* local variable posted of run_bot
    last,         \* what the last step of the item loop did
    hist,         \* observations of the current run and of the one before it
    arg,          \* input of the pure function under check
    res           \* its result

vars == <<feeds, fileExists, fileLines, run, pc, fi, ei, seen, posted, last,
          hist, arg, res>>

pipeVars == <<feeds, fileExists, fileLines, run, pc, fi, ei, seen, posted,
              last, hist>>

-----------------------------------------------------------------------------
(* Strings *)

EmDash == "~"
EnDash == "^"

Char(s, i) == SubSeq(s, i, i)

Min(a, b) == IF a <= b THEN a ELSE b

Max(a, b) == IF a >= b THEN a ELSE b

\* the least and the greatest member of a non-empty set of integers
Least(S) == CHOOSE i \in S : \A j \in S : i <= j

Greatest(S) == CHOOSE i \in S : \A j \in S : j <= i

\* the indices of s that hold a character of the set cs
Where(s, cs) == {i \in 1..Len(s) : Char(s, i) \in cs}

\* str.find(c, from): the first index >= from (1-based) holding character c, 0 if none
Find(s, c, from) ==
    LET at == {i \in from..Len(s) : Char(s, i) = c}
    IN  IF at = {} THEN 0 ELSE Least(at)

\* str.rfind(c): the last index holding character c, 0 if none
RFind(s, c) ==
    LET at == Where(s, {c}) IN IF at = {} THEN 0 ELSE Greatest(at)

\* needle in s
Contains(s, needle) ==
    \E i \in 1..(Len(s) - Len(needle) + 1) :
        SubSeq(s, i, i + Len(needle) - 1) = needle

Spaces == {" ", "\t", "\n", "\r", "\f"}

IsSpace(c) == c \in Spaces

\* the indices of s that hold no character of the set cs
WhereNot(s, cs) == {i \in 1..Len(s) : Char(s, i) \notin cs}

\* str.strip()
Strip(s) ==
    LET keep == WhereNot(s, Spaces)
    IN  IF keep = {} THEN "" ELSE SubSeq(s, Least(keep), Greatest(keep))

\* str.rstrip()
RStripSpace(s) ==
    LET keep == WhereNot(s, Spaces)
    IN  IF keep = {} THEN "" ELSE SubSeq(s, 1, Greatest(keep))

\* str.rstrip("/")
RStripSlash(s) ==
    LET keep == WhereNot(s, {"/"})
    IN  IF keep = {} THEN "" ELSE SubSeq(s, 1, Greatest(keep))

UpperLetters == "ABCDEFGHIJKLMNOPQRSTUVWXYZ"
LowerLetters == "abcdefghijklmnopqrstuvwxyz"
Digits == "0123456789"

IsIn(c, chars) == \E i \in 1..Len(chars) : Char(chars, i) = c

LowerOf ==
    [c \in {Char(UpperLetters, i) : i \in 1..26} |->
        Char(LowerLetters, CHOOSE i \in 1..26 : Char(UpperLetters, i) = c)]

LowerChar(c) == IF c \in DOMAIN LowerOf THEN LowerOf[c] ELSE c

\* str.lower()
Lower(s) ==
    LET low[i \in 0..Len(s)] ==
            IF i = 0 THEN "" ELSE low[i - 1] \o LowerChar(Char(s, i))
    IN  low[Len(s)]

\* n copies of the string c (by halves, to keep the evaluation shallow)
Rep(c, n) ==
    LET rep[i \in 0..n] == IF i = 0 THEN ""
                           ELSE IF i = 1 THEN c
                           ELSE rep[i \div 2] \o rep[i - (i \div 2)]
    IN  rep[n]

\* "".join(cs) for a list of strings
Join(cs) ==
    LET cat[a \in 1..(Len(cs) + 1), b \in 0..Len(cs)] ==
            IF a > b THEN ""
            ELSE IF a = b THEN cs[a]
            ELSE cat[a, (a + b) \div 2] \o cat[((a + b) \div 2) + 1, b]
    IN  cat[1, Len(cs)]

-----------------------------------------------------------------------------
(* Fingerprint: normalize_url, item_hash *)

SchemeChars == LowerLetters \o UpperLetters \o Digits \o "+-."

\* schemes for which urlparse splits ";params" off the last path segment
UsesParams ==
    {"", "ftp", "hdl", "prospero", "http", "imap", "https", "shttp", "rtsp",
     "rtspu", "sip", "sips", "mms", "sftp", "tel"}

\* urllib.parse.urlsplit, first step: "scheme:" when the text before the first
\* colon starts with a letter and holds scheme characters only
SplitScheme(u) ==
    LET i == Find(u, ":", 1)
    IN  IF /\ i > 1
           /\ IsIn(Char(u, 1), LowerLetters \o UpperLetters)
           /\ \A j \in 1..(i - 1) : IsIn(Char(u, j), SchemeChars)
        THEN [scheme |-> Lower(SubSeq(u, 1, i - 1)), rest |-> SubSeq(u, i + 1, Len(u))]
        ELSE [scheme |-> "", rest |-> u]

\* urllib.parse._splitnetloc(url, 2): the netloc runs to the first of / ? #
SplitNetloc(r) ==
    IF Len(r) >= 2 /\ SubSeq(r, 1, 2) = "//"
    THEN LET stops == {i \in 3..Len(r) : Char(r, i) \in {"/", "?", "#"}}
             d == IF stops = {} THEN Len(r) + 1 ELSE Least(stops)
         IN  [netloc |-> SubSeq(r, 3, d - 1), rest |-> SubSeq(r, d, Len(r))]
    ELSE [netloc |-> "", rest |-> r]

\* text before the first occurrence of character c (all of it when c is absent)
Before(s, c) ==
    LET i == Find(s, c, 1) IN IF i = 0 THEN s ELSE SubSeq(s, 1, i - 1)

\* text after the first occurrence of character c ("" when c is absent)
After(s, c) ==
    LET i == Find(s, c, 1) IN IF i = 0 THEN "" ELSE SubSeq(s, i + 1, Len(s))

\* urllib.parse._splitparams: the path without the ";params" of its last segment
SplitParams(p) ==
    LET slash == RFind(p, "/")
        i == Find(p, ";", Max(slash, 1))
    IN  IF i = 0 THEN p ELSE SubSeq(p, 1, i - 1)

\* the path of urlparse: for a scheme that uses them, less its ";params"
PathOf(scheme, noquery) ==
    IF scheme \in UsesParams /\ IsIn(";", noquery) THEN SplitParams(noquery)
    ELSE noquery

\* urlsplit after the scheme and the netloc: the fragment is cut at the first
\* "#", then the query at the first "?".  ok is FALSE where urlsplit raises
\* ValueError (a netloc with one square bracket and not the other)
SplitRest(scheme, n) ==
    [ok       |-> IsIn("[", n.netloc) = IsIn("]", n.netloc),
     scheme   |-> scheme,
     netloc   |-> n.netloc,
     path     |-> PathOf(scheme, Before(Before(n.rest, "#"), "?")),
     query    |-> After(Before(n.rest, "#"), "?"),
     fragment |-> After(n.rest, "#")]

AfterScheme(s) == SplitRest(s.scheme, SplitNetloc(s.rest))

\* urllib.parse.urlparse(u)
urlparse(u) == AfterScheme(SplitScheme(u))

\* f"{p.scheme}://{p.netloc}{p.path}".rstrip("/"), or u where urlparse raised
Rebuilt(p, u) ==
    IF p.ok THEN RStripSlash(p.scheme \o "://" \o p.netloc \o p.path) ELSE u

\* a plausible slip: the query string is cut off but the fragment is kept
RebuiltWithFragment(p, u) ==
    IF p.ok
    THEN RStripSlash(p.scheme \o "://" \o p.netloc \o p.path
                     \o (IF p.fragment = "" THEN "" ELSE "#" \o p.fragment))
    ELSE u

normalize_url_KeepFragment(u) == RebuiltWithFragment(urlparse(u), u)

normalize_url(u) == Rebuilt(urlparse(u), u)

\* hashlib.sha256(raw).hexdigest(), idealised as collision free: the digest
\* is an opaque token that determines, and is determined by, the text hashed
Sha256Hex(raw) == "sha256(" \o raw \o ")"

item_hash(title, url) ==
    LET norm == normalize_url(url)
        key == Lower(Strip(title))
        raw == norm \o "|" \o key
    IN  Sha256Hex(raw)

Keywords == {"patriot", "new england", "foxboro", "gillette"}

looks_like_patriots(title) ==
    LET t == Lower(title) IN \E k \in Keywords : Contains(t, k)

-----------------------------------------------------------------------------
(* Settings *)

NumFeeds == 4              \* len(FEEDS)
MAX_POSTS_PER_RUN == 4
MaxEntries == 12           \* parsed.entries[:12]
DEFAULT_TAGS == " #Patriots #NFL"
POST_IMAGES == TRUE
TweetLimit == 280
ShortenWidth == 200
Placeholder == "..."
REWORD_PREFIXES == <<"Update:", "Report:", "New:", "Latest:">>

\* Python's None, for a key a dict does not hold; no modelled text equals it
None == "<None>"

\* Python truthiness of a str | None
Truthy(v) == v # None /\ v # ""

\* (v or "")
OrEmpty(v) == IF v = None THEN "" ELSE v

-----------------------------------------------------------------------------
(* Seen-set store: load_seen, save_seen *)

\* printable ASCII (less the backquote, which no modelled text holds) in code
\* point order, for the order sorted() gives strings
Ascii ==
    " !\"#$%&'()*+,-./0123456789:;<=>?@ABCDEFGHIJKLMNOPQRSTUVWXYZ[\\]^_abcdefghijklmnopqrstuvwxyz{|}~"

CodeOf ==
    [c \in {Char(Ascii, i) : i \in 1..Len(Ascii)} |->
        CHOOSE i \in 1..Len(Ascii) : Char(Ascii, i) = c]

Ord(c) == CodeOf[c]

\* a < b for Python strings
StrLess(a, b) ==
    LET n == Min(Len(a), Len(b))
        diff == {i \in 1..n : Char(a, i) # Char(b, i)}
    IN  IF diff = {} THEN Len(a) < Len(b)
        ELSE Ord(Char(a, Least(diff))) < Ord(Char(b, Least(diff)))

\* sorted(S) for a set of strings
Sorted(S) ==
    [i \in 1..Cardinality(S) |->
        CHOOSE x \in S : Cardinality({y \in S : StrLess(y, x)}) = i - 1]

\* a plausible slip: a missing file and an existing one are both read as empty
load_seen_AlwaysEmpty == {}

load_seen ==
    IF ~fileExists THEN {}
    ELSE {Strip(fileLines[i]) : i \in {j \in 1..Len(fileLines) : Strip(fileLines[j]) # ""}}

\* the lines save_seen(s) writes, each without its "\n"
save_seen(s) == Sorted(s)

-----------------------------------------------------------------------------
(* Text composer: clean_title, textwrap.shorten, build_tweet *)

Dashes == {"-", EnDash, EmDash}

\* re.sub(r"\s*[-^~]\s*[^-^~]{2,}$", "", t.strip()): the match, if any, runs from
\* the white space before the last dash to the end, and needs two or more
\* characters after that dash
clean_title(t) ==
    LET s == Strip(OrEmpty(t))
        dashes == Where(s, Dashes)
    IN  IF dashes = {} THEN s
        ELSE LET d == Greatest(dashes)
             IN  IF Len(s) - d >= 2 THEN RStripSpace(SubSeq(s, 1, d - 1)) ELSE s

\* str.split(): the maximal runs of characters that are not white space
Words(s) ==
    LET n == Len(s)
        starts == {i \in 1..n : ~IsSpace(Char(s, i))
                                  /\ (i = 1 \/ IsSpace(Char(s, i - 1)))}
        ends == {i \in 1..n : ~IsSpace(Char(s, i))
                                /\ (i = n \/ IsSpace(Char(s, i + 1)))}
        nth(S, k) == CHOOSE i \in S : Cardinality({j \in S : j < i}) = k - 1
    IN  [k \in 1..Cardinality(starts) |-> SubSeq(s, nth(starts, k), nth(ends, k))]

\* TextWrapper._split_chunks on text whose white space is collapsed and which
\* holds no hyphen: the words, with a single space between neighbours
Chunks(ws) ==
    IF ws = <<>> THEN <<>>
    ELSE [i \in 1..(2 * Len(ws) - 1) |-> IF i % 2 = 1 THEN ws[(i + 1) \div 2] ELSE " "]

TotalLen(cs) == Len(Join(cs))

\* the loop of _wrap_chunks that drops chunks from the end of the line until
\* the placeholder fits after a chunk that is not white space
DropToFit(line, width, placeholder) ==
    LET fit == {m \in 1..Len(line) :
                   /\ Strip(line[m]) # ""
                   /\ TotalLen(SubSeq(line, 1, m)) + Len(placeholder) <= width}
    IN  IF fit = {} THEN placeholder
        ELSE Join(SubSeq(line, 1, Greatest(fit))) \o placeholder

\* _wrap_chunks, the end of the only line: the text when nothing is left
\* over (but white space), else the line cut back for the placeholder
PlaceLine(line, rest, width, placeholder) ==
    IF line = <<>> THEN placeholder
    ELSE IF /\ rest = <<>> \/ (Len(rest) = 1 /\ Strip(rest[1]) = "")
            /\ TotalLen(line) <= width
         THEN Join(line)
         ELSE DropToFit(line, width, placeholder)

\* _wrap_chunks: a chunk of white space at the end of the line is dropped
DropSpace(line) ==
    IF line # <<>> /\ Strip(line[Len(line)]) = ""
    THEN SubSeq(line, 1, Len(line) - 1) ELSE line

\* _handle_long_word: the chunk after the k taken is longer than the width
\* and is cut to the room left on the line
CutLongWord(chunks, k, room, width, placeholder) ==
    PlaceLine(DropSpace(Append(SubSeq(chunks, 1, k), SubSeq(chunks[k + 1], 1, room))),
              <<SubSeq(chunks[k + 1], room + 1, Len(chunks[k + 1]))>>
                  \o SubSeq(chunks, k + 2, Len(chunks)),
              width, placeholder)

\* _wrap_chunks with max_lines = 1, after the first k chunks are on the line
EndLine(chunks, k, width, placeholder) ==
    IF k < Len(chunks) /\ Len(chunks[k + 1]) > width
    THEN CutLongWord(chunks, k, width - TotalLen(SubSeq(chunks, 1, k)), width,
                     placeholder)
    ELSE PlaceLine(DropSpace(SubSeq(chunks, 1, k)), SubSeq(chunks, k + 1, Len(chunks)),
                   width, placeholder)

\* how many chunks the line takes: they are taken while they fit the width
FitCount(chunks, width) ==
    CHOOSE i \in 0..Len(chunks) :
        /\ TotalLen(SubSeq(chunks, 1, i)) <= width
        /\ i < Len(chunks) => TotalLen(SubSeq(chunks, 1, i + 1)) > width

WrapOneLine(chunks, width, placeholder) ==
    IF chunks = <<>> THEN ""
    ELSE EndLine(chunks, FitCount(chunks, width), width, placeholder)

\* textwrap.shorten(text, width, placeholder) for text without hyphens
\* (max_lines = 1, break_long_words, drop_whitespace)
shorten(text, width, placeholder) ==
    WrapOneLine(Chunks(Words(text)), width, placeholder)

Candidate(prefix, title, source, url) ==
    Strip(prefix \o " " \o title) \o " " \o EmDash \o " " \o source \o "\n" \o url
        \o DEFAULT_TAGS

\* the loop over [""] + REWORD_PREFIXES: the first text that fits, None if none does
FirstFit(title, source, url) ==
    LET prefixes == <<"">> \o REWORD_PREFIXES
        fits == {i \in 1..Len(prefixes) :
                    Len(Candidate(prefixes[i], title, source, url)) <= TweetLimit}
    IN  IF fits = {} THEN None
        ELSE Candidate(prefixes[Least(fits)], title, source, url)

Trimmed(title, source, url) ==
    shorten(title, ShortenWidth, Placeholder) \o " " \o EmDash \o " " \o source
        \o "\n" \o url \o DEFAULT_TAGS

\* build_tweet after title = clean_title(title)
Composed(title, source, url) ==
    IF FirstFit(title, source, url) # None THEN FirstFit(title, source, url)
    ELSE Trimmed(title, source, url)

build_tweet(title, source, url) == Composed(clean_title(title), source, url)

-----------------------------------------------------------------------------
(* Image resolver: extract_image_url *)

\* An entry is a record: title, link and summary (a string, or None for a key
\* the entry does not hold), media_content and media_thumbnail (lists of
\* records with a url), links (a list of records rel, type, href) and content
\* (a list of records with a value).  A list key the entry does not hold is
\* the empty list here, which is how the code reads it (entry.get(key) or [],
\* entry.get("links", [])).

ImgOpen == "<img"
SrcOpen == "src=\""

\* re.search(r'<img[^>]+src="([^"]+)"', html): group 1 of the leftmost match, the
\* [^>]+ taking as much as it can; None when nothing matches
ImgSrc(html) ==
    LET n == Len(html)
        \* a match that starts at i with src=" at j
        ok(i, j) ==
            /\ i + 3 <= n /\ SubSeq(html, i, i + 3) = ImgOpen
            /\ j >= i + 5 /\ j + 6 <= n
            /\ \A k \in (i + 4)..(j - 1) : Char(html, k) # ">"
            /\ SubSeq(html, j, j + 4) = SrcOpen
            /\ Char(html, j + 5) # "\""
            /\ Find(html, "\"", j + 6) # 0
        starts == {i \in 1..n : \E j \in 1..n : ok(i, j)}
    IN  IF starts = {} THEN None
        ELSE LET i == Least(starts)
                 j == Greatest({b \in 1..n : ok(i, b)})
             IN  SubSeq(html, j + 5, Find(html, "\"", j + 6) - 1)

\* the enclosure links of image type, in list order
ImageEnclosures(links) ==
    {i \in 1..Len(links) :
        links[i].rel = "enclosure" /\ Contains(OrEmpty(links[i].type), "image")}

extract_image_url(entry) ==
    LET media == entry.media_content
        encl == ImageEnclosures(entry.links)
        thumbs == entry.media_thumbnail
        content_list == entry.content
        fromContent == IF content_list # <<>>
                       THEN ImgSrc(OrEmpty(content_list[1].value)) ELSE None
    IN  IF media # <<>> /\ Truthy(media[1].url) THEN media[1].url
        ELSE IF encl # {}
             THEN entry.links[Least(encl)].href
        ELSE IF thumbs # <<>> /\ Truthy(thumbs[1].url) THEN thumbs[1].url
        ELSE IF fromContent # None THEN fromContent
        ELSE ImgSrc(OrEmpty(entry.summary))

-----------------------------------------------------------------------------
(* Environment of run_bot: the feeds *)

MaxRuns == 2               \* runs of run_bot in one behaviour

NoMedia == [media_content |-> <<>>, links |-> <<>>, media_thumbnail |-> <<>>,
            content |-> <<>>, summary |-> None]

Item(title, link) == [title |-> title, link |-> link] @@ NoMedia

\* The entries the modelled feeds are made of.  1 and 2 are one story under
\* two URLs that differ in the query string; 3 is off topic; 4 has no link and
\* 9 no title; 5 to 8 are four more stories; 1 carries an image.
Catalog ==
    <<[Item("Patriots win", "https://x.com/a") EXCEPT
          !.media_content = <<[url |-> "https://x.com/i.jpg"]>>],
      Item(" PATRIOTS win ", "https://x.com/a?ref=1"),
      Item("Celtics win opener", "https://x.com/c"),
      Item("Patriots sign new TE", "  "),
      Item("Gillette Stadium plan - NESN", "https://x.com/b/"),
      Item("FOXBORO notes", "https://x.com/f#top"),
      Item("New England trade", "https://x.com/d"),
      Item("patriots cut QB", "https://x.com/e"),
      Item(None, "https://x.com/g")>>

\* a feed of thirteen entries: ten off-topic ones, then stories 6, 7 and 8
LongFeed == [i \in 1..13 |-> IF i <= 10 THEN 3 ELSE i - 5]

\* What feedparser.parse may return for a feed URL: the feed's title (None when
\* it has none) and its entries, as indices into Catalog.  The empty feed is
\* also what a feed that cannot be fetched or parsed yields.
FeedChoices ==
    {[title |-> None,   entries |-> <<>>],
     [title |-> "NESN", entries |-> <<1, 3, 2, 4, 9, 5, 8>>],
     [title |-> "NBC",  entries |-> LongFeed]}

\* parsed.feed.get("title", "Source")
SourceOf(feed) == IF feed.title = None THEN "Source" ELSE feed.title

\* a plausible slip: the loop runs over all of parsed.entries
NumEntriesAll(f) == Len(feeds[f].entries)

\* len(parsed.entries[:12]) for parsed = feedparser.parse(FEEDS[f])
NumEntries(f) == Min(Len(feeds[f].entries), MaxEntries)

Sources == {SourceOf(c) : c \in FeedChoices}

\* What the loop body computes from an entry of a feed with the given source
\* label: the trimmed title and link, the relevance test, the fingerprint, the
\* tweet text and the image URL.
Computed(entry, title, link, source) ==
    [title    |-> title,
     link     |-> link,
     relevant |-> looks_like_patriots(title),
     h        |-> item_hash(title, link),
     text     |-> build_tweet(title, source, link),
     img      |-> extract_image_url(entry)]

EntryFacts(entry, source) ==
    Computed(entry, Strip(OrEmpty(entry.title)), Strip(OrEmpty(entry.link)), source)

\* EntryFacts tabulated over the Catalog and the source labels, so that it is
\* computed once and not again in every state
Facts == [i \in 1..Len(Catalog) |-> [src \in Sources |-> EntryFacts(Catalog[i], src)]]

-----------------------------------------------------------------------------
(* run_bot *)

MaxFailures == 2           \* publish failures the environment causes in one run

NoStep == [kind |-> "none", pos |-> <<0, 0>>, h |-> "", text |-> "", media |-> FALSE]

NewHist(prev, killed) ==
    [loaded     |-> load_seen,         \* the seen-set as this run loaded it
     okSet      |-> {},                \* fingerprints published by this run
     failSet    |-> {},                \* fingerprints whose publish failed in this run
     nFail      |-> 0,                 \* publish failures of this run
     tried      |-> {},                \* positions <<feed, entry>> of this run's attempts
     fetched    |-> <<>>,              \* feeds fetched by this run, in order
     saves      |-> 0,                 \* calls of save_seen by this run
     prevOk     |-> prev.okSet,        \* okSet of the run before
     prevFail   |-> prev.failSet,      \* failSet of the run before
     prevKilled |-> killed,            \* the run before was terminated before its end
     everOk     |-> prev.everOk,       \* fingerprints published by any run so far
     dup        |-> prev.dup]          \* some fingerprint was published twice

InitHist ==
    [loaded |-> {}, okSet |-> {}, failSet |-> {}, nFail |-> 0, tried |-> {},
     fetched |-> <<>>, saves |-> 0, prevOk |-> {}, prevFail |-> {},
     prevKilled |-> FALSE, everOk |-> {}, dup |-> FALSE]

PureIdle == arg = <<>> /\ res = <<>>

PipeIdle ==
    /\ fileExists = FALSE
    /\ fileLines = <<>>
    /\ run = 0
    /\ pc = "idle"
    /\ fi = 1
    /\ ei = 1
    /\ seen = {}
    /\ posted = 0
    /\ last = NoStep
    /\ hist = InitHist

Init ==
    /\ feeds \in [1..NumFeeds -> FeedChoices]
    /\ PipeIdle
    /\ PureIdle

\* a plausible slip: the comparison is strict
CapReachedStrict == posted > MAX_POSTS_PER_RUN

\* posted >= MAX_POSTS_PER_RUN, the test of both loops
CapReached == posted >= MAX_POSTS_PER_RUN

\* seen = load_seen(); posted = 0
StartRun ==
    /\ pc \in {"idle", "done", "killed"}
    /\ run < MaxRuns
    /\ run' = run + 1
    /\ seen' = load_seen
    /\ posted' = 0
    /\ fi' = 1
    /\ ei' = 1
    /\ pc' = "feed"
    /\ last' = NoStep
    /\ hist' = NewHist(hist, pc = "killed")
    /\ UNCHANGED <<feeds, fileExists, fileLines, arg, res>>

\* for feed_url in FEEDS: no feed is left
FeedsExhausted ==
    /\ pc = "feed"
    /\ fi > NumFeeds
    /\ pc' = "save"
    /\ UNCHANGED <<feeds, fileExists, fileLines, run, fi, ei, seen, posted, last,
                   hist, arg, res>>

\* if posted >= MAX_POSTS_PER_RUN: break (outer loop)
FeedCapBreak ==
    /\ pc = "feed"
    /\ fi <= NumFeeds
    /\ CapReached
    /\ pc' = "save"
    /\ UNCHANGED <<feeds, fileExists, fileLines, run, fi, ei, seen, posted, last,
                   hist, arg, res>>

\* parsed = feedparser.parse(feed_url)
FeedFetch ==
    /\ pc = "feed"
    /\ fi <= NumFeeds
    /\ ~CapReached
    /\ pc' = "item"
    /\ ei' = 1
    /\ hist' = [hist EXCEPT !.fetched = Append(@, fi)]
    /\ UNCHANGED <<feeds, fileExists, fileLines, run, fi, seen, posted, last,
                   arg, res>>

\* for entry in parsed.entries[:12]: no entry is left
ItemsExhausted ==
    /\ pc = "item"
    /\ ei > NumEntries(fi)
    /\ fi' = fi + 1
    /\ ei' = 1
    /\ pc' = "feed"
    /\ UNCHANGED <<feeds, fileExists, fileLines, run, seen, posted, last, hist,
                   arg, res>>

\* if posted >= MAX_POSTS_PER_RUN: break (inner loop)
ItemCapBreak ==
    /\ pc = "item"
    /\ ei <= NumEntries(fi)
    /\ CapReached
    /\ fi' = fi + 1
    /\ ei' = 1
    /\ pc' = "feed"
    /\ UNCHANGED <<feeds, fileExists, fileLines, run, seen, posted, last, hist,
                   arg, res>>

\* the entry the inner loop is at, as an index into Catalog
CurId == feeds[fi].entries[ei]

\* what the loop body computes from that entry
Cur == Facts[CurId][SourceOf(feeds[fi])]

\* why an entry is passed over ("" when it is not): the three continue's
SkipReason(e) ==
    IF e.title = "" \/ e.link = "" THEN "skip_empty"
    ELSE IF ~e.relevant THEN "skip_irrelevant"
    ELSE IF e.h \in seen THEN "skip_duplicate"
    ELSE ""

AtEntry ==
    /\ pc = "item"
    /\ ei <= NumEntries(fi)
    /\ ~CapReached

Skip(e) ==
    /\ SkipReason(e) # ""
    /\ ei' = ei + 1
    /\ last' = [NoStep EXCEPT !.kind = SkipReason(e), !.pos = <<fi, ei>>,
                              !.h = IF SkipReason(e) = "skip_duplicate" THEN e.h ELSE ""]
    /\ UNCHANGED <<feeds, fileExists, fileLines, run, pc, fi, seen, posted, hist,
                   arg, res>>

\* continue
ItemSkip == AtEntry /\ Skip(Cur)

\* whether media_ids are passed to client.create_tweet: an image URL was
\* found and upload_image_to_x returned an id for it
WithMedia(e, uploaded) == POST_IMAGES /\ Truthy(e.img) /\ uploaded

\* a plausible slip: the fingerprint is recorded whether or not the publish worked
AfterFailureRecorded(h) == seen' = seen \cup {h} /\ posted' = posted

\* what a failed publish changes: nothing of seen, nothing of posted
AfterFailure(h) == seen' = seen /\ posted' = posted

\* a plausible slip: the publish is counted but its fingerprint is not recorded
AfterSuccessForgotten(h) == seen' = seen /\ posted' = posted + 1

\* what a publish that worked changes: seen.add(h); posted += 1
AfterSuccess(h) == seen' = seen \cup {h} /\ posted' = posted + 1

\* a plausible variant: the seen-set is written after every publish that worked
FileAfterPostSaved(h) == fileExists' = TRUE /\ fileLines' = save_seen(seen \cup {h})

\* SEEN_FILE after a publish that worked: nothing is written inside the loops
FileAfterPost(h) == UNCHANGED <<fileExists, fileLines>>

Post(e, uploaded) ==
    /\ SkipReason(e) = ""
    /\ AfterSuccess(e.h)
    /\ last' = [kind |-> "posted", pos |-> <<fi, ei>>, h |-> e.h,
                text |-> e.text, media |-> WithMedia(e, uploaded)]
    /\ hist' = [hist EXCEPT !.okSet = @ \cup {e.h},
                            !.tried = @ \cup {<<fi, ei>>},
                            !.everOk = @ \cup {e.h},
                            !.dup = @ \/ e.h \in hist.everOk]
    /\ ei' = ei + 1
    /\ FileAfterPost(e.h)
    /\ UNCHANGED <<feeds, run, pc, fi, arg, res>>

\* client.create_tweet returns
ItemPosted == AtEntry /\ \E uploaded \in BOOLEAN : Post(Cur, uploaded)

\* a plausible slip: after a failure the loop stays at the entry and tries it again
FailAndRetry(e, uploaded, kind) ==
    /\ SkipReason(e) = ""
    /\ hist.nFail < MaxFailures
    /\ AfterFailure(e.h)
    /\ last' = [kind |-> kind, pos |-> <<fi, ei>>, h |-> e.h,
                text |-> e.text, media |-> WithMedia(e, uploaded)]
    /\ hist' = [hist EXCEPT !.failSet = @ \cup {e.h},
                            !.nFail = @ + 1,
                            !.tried = @ \cup {<<fi, ei>>}]
    /\ ei' = ei
    /\ UNCHANGED <<feeds, fileExists, fileLines, run, pc, fi, arg, res>>

Fail(e, uploaded, kind) ==
    /\ SkipReason(e) = ""
    /\ hist.nFail < MaxFailures
    /\ AfterFailure(e.h)
    /\ last' = [kind |-> kind, pos |-> <<fi, ei>>, h |-> e.h,
                text |-> e.text, media |-> WithMedia(e, uploaded)]
    /\ hist' = [hist EXCEPT !.failSet = @ \cup {e.h},
                            !.nFail = @ + 1,
                            !.tried = @ \cup {<<fi, ei>>}]
    /\ ei' = ei + 1
    /\ UNCHANGED <<feeds, fileExists, fileLines, run, pc, fi, arg, res>>

\* client.create_tweet raises: tweepy.errors.Forbidden, or any other exception
ItemFailed ==
    AtEntry /\ \E uploaded \in BOOLEAN, kind \in {"forbidden", "failed"} :
                  Fail(Cur, uploaded, kind)

\* save_seen(seen)
SaveSeen ==
    /\ pc = "save"
    /\ fileExists' = TRUE
    /\ fileLines' = save_seen(seen)
    /\ pc' = "done"
    /\ hist' = [hist EXCEPT !.saves = @ + 1]
    /\ UNCHANGED <<feeds, run, fi, ei, seen, posted, last, arg, res>>

\* the process is terminated inside run_bot, before save_seen: its locals are lost
Kill ==
    /\ pc \in {"feed", "item", "save"}
    /\ pc' = "killed"
    /\ seen' = {}
    /\ posted' = 0
    /\ fi' = 1
    /\ ei' = 1
    /\ last' = NoStep
    /\ UNCHANGED <<feeds, fileExists, fileLines, run, hist, arg, res>>

Next ==
    \/ StartRun
    \/ FeedsExhausted
    \/ FeedCapBreak
    \/ FeedFetch
    \/ ItemsExhausted
    \/ ItemCapBreak
    \/ ItemSkip
    \/ ItemPosted
    \/ ItemFailed
    \/ SaveSeen

Spec == Init /\ [][Next]_vars

NextKill == Next \/ Kill

\* the feeds of the runs that may be terminated: two feeds with entries at
\* most, the third repeating the first and the fourth empty
InitKill == Init /\ feeds[3] = feeds[1] /\ feeds[4].entries = <<>>

SpecKill == InitKill /\ [][NextKill]_vars

-----------------------------------------------------------------------------
(* The pure functions, each applied once to an input drawn from a bounded set *)

NoFeeds == [f \in 1..NumFeeds |-> [title |-> None, entries |-> <<>>]]

PipeUnused == feeds = NoFeeds /\ PipeIdle

(* item_hash on two URLs that are one base with two query/fragment suffixes *)

HashTitles == {"Patriots win", " PATRIOTS Win ", ""}

\* scheme, host and path; the last one has a netloc that urlparse rejects
UrlBases ==
    {"https://x.com/a", "https://x.com/a/", "https://x.com", "HTTP://X.com/a/b",
     "x.com/a", "//x.com/a;p", "http://[x/a"}

\* nothing, a query string, a fragment, or both
UrlSuffixes ==
    {"", "?ref=1", "#top", "?a=1&b=2#frag", "?", "#", "?u=http://y/z", "#s?x"}

HashInit ==
    /\ PipeUnused
    /\ arg \in [title : HashTitles, base : UrlBases, s1 : UrlSuffixes, s2 : UrlSuffixes]
    /\ res = [done |-> FALSE, h1 |-> "", h2 |-> ""]

HashApply ==
    /\ ~res.done
    /\ res' = [done |-> TRUE,
               h1   |-> item_hash(arg.title, arg.base \o arg.s1),
               h2   |-> item_hash(arg.title, arg.base \o arg.s2)]
    /\ UNCHANGED <<pipeVars, arg>>

HashNext == HashApply

SpecHash == HashInit /\ [][HashNext]_vars

(* build_tweet *)

MaxTitleLen == 300         \* longest title composed

TitleLens == {0, 1, 60, 100, 131, 132, 180, 200, 201, 280, MaxTitleLen}

\* a title of n characters: words of four letters, single spaces between them
WordsTitle(n) ==
    IF n % 5 = 0 /\ n > 0
    THEN SubSeq(Rep("aaaa ", n \div 5), 1, n - 1) \o "a"
    ELSE SubSeq(Rep("aaaa ", (n \div 5) + 1), 1, n)

\* titles of one long word, titles of short words, and both with a site name
TweetTitles ==
    {Rep("a", n) : n \in TitleLens} \cup {WordsTitle(n) : n \in TitleLens}
        \cup {WordsTitle(n) \o " - NESN" : n \in TitleLens}

TweetSources == {"NESN", "Source", Rep("S", 30)}

TweetUrls == {"https://x.com/a", "https://x.com/" \o Rep("u", 46),
              "https://x.com/" \o Rep("u", 86)}

TweetInit ==
    /\ PipeUnused
    /\ arg \in [title : TweetTitles, source : TweetSources, url : TweetUrls]
    /\ res = [done |-> FALSE, text |-> ""]

TweetApply ==
    /\ ~res.done
    /\ res' = [done |-> TRUE, text |-> build_tweet(arg.title, arg.source, arg.url)]
    /\ UNCHANGED <<pipeVars, arg>>

TweetNext == TweetApply

SpecTweet == TweetInit /\ [][TweetNext]_vars

(* extract_image_url *)

ImgTag(url) == "<p><img class=\"x\" src=\"" \o url \o "\"></p>"

ImageEntries ==
    [title           : {"Patriots win"},
     link            : {"https://x.com/a"},
     media_content   : {<<>>, <<[url |-> "M"]>>, <<[url |-> None]>>,
                        <<[url |-> ""], [url |-> "M2"]>>},
     links           : {<<>>,
                        <<[rel |-> "enclosure", type |-> "image/jpeg", href |-> "E"]>>,
                        <<[rel |-> "enclosure", type |-> "image/jpeg", href |-> None]>>,
                        <<[rel |-> "alternate", type |-> "text/html", href |-> "A"],
                          [rel |-> "enclosure", type |-> "audio/mpeg", href |-> "B"]>>},
     media_thumbnail : {<<>>, <<[url |-> "T"]>>, <<[url |-> None]>>},
     content         : {<<>>, <<[value |-> ImgTag("C")]>>, <<[value |-> "<p>text</p>"]>>},
     summary         : {None, ImgTag("S"), "text"}]

ImageInit ==
    /\ PipeUnused
    /\ arg \in ImageEntries
    /\ res = [done |-> FALSE, url |-> None]

ImageApply ==
    /\ ~res.done
    /\ res' = [done |-> TRUE, url |-> extract_image_url(arg)]
    /\ UNCHANGED <<pipeVars, arg>>

ImageNext == ImageApply

SpecImage == ImageInit /\ [][ImageNext]_vars


(***************************************************************************)
(* Claims on the pure functions                                            *)
(***************************************************************************)

\* the URL a source of extract_image_url yields: None when it has none
C4_Url(v) == IF Truthy(v) THEN v ELSE None

\* the five sources of an entry in priority order, each as the URL it yields
C4_Yields(entry) ==
    << IF entry.media_content # <<>> THEN C4_Url(entry.media_content[1].url) ELSE None,
       IF ImageEnclosures(entry.links) # {}
           THEN C4_Url(entry.links[Least(ImageEnclosures(entry.links))].href)
           ELSE None,
       IF entry.media_thumbnail # <<>> THEN C4_Url(entry.media_thumbnail[1].url) ELSE None,
       IF entry.content # <<>> THEN ImgSrc(OrEmpty(entry.content[1].value)) ELSE None,
       ImgSrc(OrEmpty(entry.summary)) >>

\* the URL of the first source that yields one, None when no source does
C4_FirstYield(entry) ==
    LET y == C4_Yields(entry)
        S == {k \in 1..Len(y) : y[k] # None}
    IN  IF S = {} THEN None ELSE y[Least(S)]

\* C4: extract_image_url returns the URL of the first of its five sources, in
\* priority order, that yields a non-empty URL, and None only when none of the
\* five yields one: a source without a URL never hides a lower source with one.
C4_StrictPriority == res.done => res.url = C4_FirstYield(arg)

\* C5: build_tweet returns at most 280 characters for every title of at most
\* 200 characters (label up to 30, URL up to 100 characters), and a non-empty
\* text for a title of 280 characters or more.
C5_WithinLimit ==
    res.done =>
        /\ Len(arg.title) <= ShortenWidth => Len(res.text) <= TweetLimit
        /\ Len(arg.title) >= TweetLimit => res.text # ""

Failures == {"forbidden", "failed"}

\* a step of the current run that made a publish attempt
AttemptStep == run' = run /\ hist'.tried # hist.tried

\* the entry the loop is at has a title, a link and a keyword
CurPostable == Cur.title # "" /\ Cur.link # "" /\ Cur.relevant

\* C1 as stated: a failed publish leaves the fingerprint out of the seen-set,
\* and the run after it does not pass the item over as a duplicate when it
\* comes to it.
C1_NextRunAttemptsFailed ==
    /\ last.kind \in Failures => last.h \notin seen
    /\ (AtEntry /\ CurPostable /\ Cur.h \in hist.prevFail /\ Cur.h \notin hist.okSet)
           => Cur.h \notin seen

\* C1, amended: a failed publish leaves seen and posted as they were and the
\* run goes on with the next entry; the set a run persists holds no fingerprint
\* whose publish failed unless that run published an entry with that
\* fingerprint; and the run after it attempts such an item again whenever it
\* reaches it below the cap with its fingerprint not in the seen-set.
C1_FailedStaysUnseen ==
    /\ [](last.kind \in Failures =>
            /\ last.h \notin seen
            /\ pc \in {"item", "feed", "save", "done"})
    /\ [](pc = "done" => (hist.failSet \ hist.okSet) \cap load_seen = {})
    /\ [][ /\ (AttemptStep /\ last'.kind \in Failures) =>
                /\ seen' = seen
                /\ posted' = posted
                /\ last'.h \notin seen'
                /\ pc' = "item" /\ fi' = fi /\ ei' = ei + 1
           /\ (AtEntry /\ CurPostable /\ Cur.h \in hist.prevFail \ hist.prevOk
                       /\ Cur.h \notin hist.okSet) =>
                AttemptStep /\ last'.h = Cur.h ]_vars

\* C1 happens: the second run attempts an item whose publish failed in the first
C1_Witness ==
    /\ run = 2
    /\ last.kind \in Failures \cup {"posted"}
    /\ last.h \in hist.prevFail \ hist.prevOk

\* C2: no fingerprint is published twice, in one run or over completed runs
\* that share the seen-set file: the second of two runs over the same feeds
\* publishes nothing the first one published.
C2_NoDoublePost ==
    /\ ~hist.dup
    /\ hist.okSet \cap hist.prevOk = {}
    /\ hist.okSet \cap hist.loaded = {}

\* C2 happens: the second run passes over an item the first run published
C2_Witness ==
    /\ run = 2
    /\ last.kind = "skip_duplicate"
    /\ last.h \in hist.prevOk
    /\ hist.okSet # {}

\* C3: posted stays within 0..MAX_POSTS_PER_RUN, and once it is
\* MAX_POSTS_PER_RUN the run fetches no further feed and attempts no further
\* publish.
C3_CapPerRun ==
    /\ [](posted \in 0..MAX_POSTS_PER_RUN)
    /\ [](Cardinality(hist.okSet) <= MAX_POSTS_PER_RUN)
    /\ [][(posted = MAX_POSTS_PER_RUN /\ run' = run) =>
              /\ hist'.fetched = hist.fetched
              /\ hist'.tried = hist.tried
              /\ posted' = posted]_vars

\* C3 happens: the cap is reached in front of an entry that would be published
\* and of a feed not yet fetched
C3_Witness ==
    /\ posted = MAX_POSTS_PER_RUN
    /\ pc = "item"
    /\ ei <= NumEntries(fi)
    /\ CurPostable /\ Cur.h \notin seen
    /\ fi < NumFeeds

\* the checks of the loop body on the entry the loop is at, from the entry
\* itself: title and link not empty, a keyword in the title, fingerprint unseen
C7_Eligible ==
    LET entry == Catalog[CurId]
        title == Strip(OrEmpty(entry.title))
        link  == Strip(OrEmpty(entry.link))
    IN  /\ title # ""
        /\ link # ""
        /\ looks_like_patriots(title)
        /\ item_hash(title, link) \notin seen

\* C7: a publish attempt is made only for an entry among the first 12 of its
\* feed, with a title and a link, relevant, and with a fingerprint not in the
\* seen-set at that moment; feeds are taken in the order of FEEDS and entries in
\* feed order; an entry that fails a check gets no attempt and changes neither
\* seen nor posted.
C7_OnlyEligibleAttempted ==
    [][ /\ AttemptStep =>
             /\ pc = "item"
             /\ ei \in 1..MaxEntries /\ ei <= Len(feeds[fi].entries)
             /\ C7_Eligible
             /\ hist'.tried = hist.tried \cup {<<fi, ei>>}
             /\ <<fi, ei>> \notin hist.tried
             /\ \A pos \in hist.tried :
                    pos[1] < fi \/ (pos[1] = fi /\ pos[2] < ei)
        /\ (pc = "item" /\ pc' = "item") => fi' = fi /\ ei' = ei + 1
        /\ run' = run => fi' \in {fi, fi + 1}
        /\ (AtEntry /\ ~C7_Eligible) =>
             /\ hist'.tried = hist.tried
             /\ seen' = seen
             /\ posted' = posted
             /\ ei' = ei + 1 ]_vars

\* C7 happens: the twelfth entry of a feed with more entries is published, after
\* entries before it were passed over
C7_Witness ==
    /\ last.kind = "posted"
    /\ last.pos[2] = MaxEntries
    /\ Len(feeds[last.pos[1]].entries) > MaxEntries
    /\ hist.tried = {last.pos}

\* C8: within a run the seen-set only grows; a fingerprint is added only by a
\* publish that worked, together with posted + 1, and a failed publish adds
\* nothing; the set is persisted once per completed run, after the loops, and
\* the persisted set is the loaded set together with the fingerprints published.
C8_SeenGrowsAndIsSaved ==
    /\ [](pc \in {"feed", "item", "save"} =>
            /\ seen = hist.loaded \cup hist.okSet
            /\ hist.saves = 0)
    /\ [](pc = "done" =>
            /\ hist.saves = 1
            /\ load_seen = hist.loaded \cup hist.okSet)
    /\ [][run' # run => seen' = load_seen' /\ hist'.loaded = seen' /\ posted' = 0]_vars
    /\ [][run' = run =>
            /\ seen \subseteq seen'
            /\ hist'.saves = hist.saves => UNCHANGED <<fileExists, fileLines>>
            /\ seen' # seen =>
                 /\ AttemptStep
                 /\ last'.kind = "posted"
                 /\ seen' = seen \cup {last'.h}
                 /\ posted' = posted + 1
            /\ posted' # posted => seen' # seen /\ Cardinality(seen') = Cardinality(seen) + 1
            /\ (AttemptStep /\ last'.kind \in Failures) => seen' = seen
            /\ hist'.saves # hist.saves =>
                 /\ pc = "save" /\ pc' = "done"
                 /\ fi > NumFeeds \/ posted >= MAX_POSTS_PER_RUN ]_vars

\* C8 happens: a run that loaded a non-empty set, published and had a failure
\* has saved
C8_Witness ==
    /\ pc = "done"
    /\ hist.loaded # {}
    /\ hist.okSet # {}
    /\ hist.failSet \ hist.okSet # {}
    /\ load_seen = hist.loaded \cup hist.okSet

\* C10 as stated: after a publish attempt for a fingerprint failed, the run
\* makes no further publish attempt for that fingerprint.
C10_NoSecondAttemptForFingerprint ==
    [][AttemptStep => last'.h \notin hist.failSet]_vars

\* C10, amended: no entry is attempted twice in a run, and after a failure the
\* loop moves to the next entry; a later entry of that run with the fingerprint
\* of a failed one is attempted, because the fingerprint was not recorded.
C10_NoRetryOfEntry ==
    [][ /\ AttemptStep =>
             /\ <<fi, ei>> \notin hist.tried
             /\ hist'.tried = hist.tried \cup {<<fi, ei>>}
             /\ fi' = fi /\ ei' = ei + 1
        /\ (AtEntry /\ CurPostable /\ Cur.h \in hist.failSet \ hist.okSet) =>
             AttemptStep /\ last'.h = Cur.h ]_vars

\* C10 happens: an entry is published whose fingerprint failed earlier in the run
C10_Witness ==
    /\ last.kind = "posted"
    /\ last.h \in hist.failSet
    /\ Cardinality(hist.tried) >= 2

\* C9 as stated: a run terminated before save_seen leaves the file as loaded,
\* and the run after it publishes again every item the terminated run
\* published (here: when that run completes and none of its publishes fails).
C9_NextRunRepublishesAll ==
    /\ pc = "killed" => load_seen = hist.loaded
    /\ (pc = "done" /\ hist.prevKilled /\ hist.nFail = 0)
           => hist.prevOk \subseteq hist.okSet

\* C9, amended: a run terminated before save_seen leaves the file as loaded, so
\* none of its publishes is recorded; the run after it loads a set without them
\* and attempts each of them again whenever it reaches it below the cap, and a
\* publish that then works is a second publish of that fingerprint.
C9_KilledRunForgets ==
    /\ [](pc = "killed" => load_seen = hist.loaded)
    /\ [](hist.prevKilled => hist.prevOk \cap hist.loaded = {})
    /\ [][ /\ (pc # "killed" /\ pc' = "killed") =>
                UNCHANGED <<fileExists, fileLines>> /\ hist'.saves = 0
           /\ (hist.prevKilled /\ AtEntry /\ CurPostable /\ Cur.h \in hist.prevOk
                               /\ Cur.h \notin hist.okSet /\ pc' # "killed") =>
                /\ AttemptStep
                /\ last'.h = Cur.h
                /\ last'.kind = "posted" => hist'.dup ]_vars

\* C9 happens: the run after a terminated one publishes an item a second time
C9_Witness ==
    /\ hist.prevKilled
    /\ last.kind = "posted"
    /\ last.h \in hist.prevOk
    /\ hist.dup
    /\ last.h \notin hist.loaded

=============================================================================
